---- MODULE Spec2Model ----
(***************************************************************************)
(* A model of src/app.py: the prop-bet contest application.  The store is  *)
(* the five tables of the schema (Settings, Prop, Answer, Entry, Pick) on  *)
(* the default SQLite database, the session holds the is_admin flag, and   *)
(* every request handler that writes to the store or the session is one    *)
(* action.  Form values are strings, modelled as sequences of one-         *)
(* character strings, so that strip(), lower() and int() are computed as   *)
(* the code computes them.                                                 *)
(***************************************************************************)
EXTENDS Integers, Sequences, FiniteSets, TLC

VARIABLES
    settings,   \* the Settings row: [game_started, submissions_locked]
    props,      \* Prop table: id -> [order, resolved, correct_answer_id]
    answers,    \* Answer table: id -> [prop_id, text, points, order]
    entries,    \* Entry table: id -> [name]
    picks,      \* Pick table: <<entry_id, prop_id>> -> answer_id
    is_admin,   \* session['is_admin']
    endpoint,   \* request.endpoint of the last request: the handler's name
    response,   \* what the last request returned: [kind, target, flash]
    snapshot    \* history: the scores before the last resolving call

vars == <<settings, props, answers, entries, picks, is_admin, endpoint, response, snapshot>>

\* The persistent store (everything but the session and the HTTP exchange).
store == <<settings, props, answers, entries, picks>>

-----------------------------------------------------------------------------
(* Bounds of the model.                                                    *)

MaxPropId == 1
MaxAnswerId == 2
MaxEntryId == 2
MaxOrder == 1
MaxMoveProps == 3

-----------------------------------------------------------------------------
(* Strings.                                                                *)

\* The characters "U+00C9" and "U+00E9" stand for the letters E-acute in
\* upper and lower case: letters outside ASCII.
Space == " "
UpperE == "U+00C9"
LowerE == "U+00E9"

\* A SQL NULL / Python None in an integer column is the empty sequence, an
\* integer n is <<n>>.
None == <<>>
Some(n) == <<n>>

RECURSIVE LStrip(_)
LStrip(s) == IF s # <<>> /\ Head(s) = Space THEN LStrip(Tail(s)) ELSE s

RECURSIVE RStrip(_)
RStrip(s) ==
    IF s # <<>> /\ s[Len(s)] = Space THEN RStrip(SubSeq(s, 1, Len(s) - 1)) ELSE s

\* str.strip()
strip(s) == RStrip(LStrip(s))

\* str.lower() of Python: Unicode aware.
PyLowerChar(c) ==
    CASE c = "A" -> "a"
      [] c = "B" -> "b"
      [] c = UpperE -> LowerE
      [] OTHER -> c

lower(s) == [i \in 1..Len(s) |-> PyLowerChar(s[i])]

\* lower() of SQLite, the default database: ASCII letters only.
SqlLowerChar(c) ==
    CASE c = "A" -> "a"
      [] c = "B" -> "b"
      [] OTHER -> c

func_lower(s) == [i \in 1..Len(s) |-> SqlLowerChar(s[i])]

Digits == <<"0", "1", "2", "3", "4", "5", "6", "7", "8", "9">>

IsDigit(c) == \E i \in 1..Len(Digits) : Digits[i] = c

DigitVal(c) == (CHOOSE i \in 1..Len(Digits) : Digits[i] = c) - 1

RECURSIVE NatOf(_)
NatOf(s) ==
    IF s = <<>> THEN 0
    ELSE 10 * NatOf(SubSeq(s, 1, Len(s) - 1)) + DigitVal(s[Len(s)])

AllDigits(s) == s # <<>> /\ \A i \in 1..Len(s) : IsDigit(s[i])

\* Whether int(s) returns (TRUE) or raises ValueError (FALSE), for strings of
\* digits with an optional minus sign.
IntParses(s) ==
    IF s # <<>> /\ Head(s) = "-" THEN AllDigits(Tail(s)) ELSE AllDigits(s)

\* int(s)
int(s) == IF Head(s) = "-" THEN 0 - NatOf(Tail(s)) ELSE NatOf(s)

\* The decimal string of a small natural number.
str(n) == IF n < 10 THEN <<Digits[n + 1]>> ELSE <<Digits[(n \div 10) + 1], Digits[(n % 10) + 1]>>

-----------------------------------------------------------------------------
(* The store.                                                              *)

Max(S) == CHOOSE m \in S : \A n \in S : n <= m

\* The id SQLite gives a new row of a table with the ids S: an INTEGER
\* PRIMARY KEY column is the rowid, one more than the largest in use.
NewId(S) == IF S = {} THEN 1 ELSE Max(S) + 1

\* Prop.query.order_by(Prop.order, Prop.id).all(), as a sequence of ids.
Before(ps, a, b) ==
    \/ ps[a].order < ps[b].order
    \/ ps[a].order = ps[b].order /\ a < b

RenderOrder(ps) ==
    IF DOMAIN ps = {} THEN <<>>
    ELSE CHOOSE s \in [1..Cardinality(DOMAIN ps) -> DOMAIN ps] :
            \A i, j \in 1..Cardinality(DOMAIN ps) : i < j => Before(ps, s[i], s[j])

\* The picks of an entry (Entry.picks), as the set of their prop ids.
PicksOf(e) == {k[2] : k \in {k \in DOMAIN picks : k[1] = e}}

-----------------------------------------------------------------------------
(* Scoring.                                                                *)

Min(S) == CHOOSE m \in S : \A n \in S : m <= n

\* What a call returns: a value, or the exception it raises.
Returns(n) == [raises |-> "", value |-> n]
Raises(exc) == [raises |-> exc, value |-> 0]

\* The loop of calculate_score over the picks of entry e that are left (todo,
\* the prop ids of the picks; the sum does not depend on the order).  A pick
\* whose prop or answer row is gone loads as None, and reading an attribute
\* of None raises AttributeError.
RECURSIVE ScoreLoop(_, _, _, _, _, _)
ScoreLoop(ps, ans, pk, e, todo, total) ==
    IF todo = {} THEN Returns(total)
    ELSE LET p == Min(todo)
             answer_id == pk[<<e, p>>]
         IN  IF p \notin DOMAIN ps THEN Raises("AttributeError")
             ELSE IF ps[p].resolved /\ ps[p].correct_answer_id = Some(answer_id)
             THEN IF answer_id \notin DOMAIN ans THEN Raises("AttributeError")
                  ELSE ScoreLoop(ps, ans, pk, e, todo \ {p},
                                 total + ans[answer_id].points)
             ELSE ScoreLoop(ps, ans, pk, e, todo \ {p}, total)

Score(ps, ans, pk, e) ==
    ScoreLoop(ps, ans, pk, e, {k[2] : k \in {k \in DOMAIN pk : k[1] = e}}, 0)

calculate_score(e) == Score(props, answers, picks, e)

\* get_pick_status
get_pick_status(e, p) ==
    IF ~props[p].resolved THEN "pending"
    ELSE IF props[p].correct_answer_id = Some(picks[<<e, p>>]) THEN "correct"
    ELSE "incorrect"

-----------------------------------------------------------------------------
(* Requests and responses.                                                 *)

ADMIN_PASSWORD == "seth2026"

Redirect(target, flash) == [kind |-> "redirect", target |-> target, flash |-> flash]
Render(template, flash) == [kind |-> "render", target |-> template, flash |-> flash]
Abort(code, exc) == [kind |-> "abort", target |-> code, flash |-> exc]

\* The history variable: stage "resolved" after a call of admin_resolve_prop
\* that marked `answer` correct for `prop` (was_resolved and scores are the
\* prop's flag and every entry's score before that call), stage "unresolved"
\* after the unresolving call that directly followed it on the same prop.
NoSnapshot ==
    [stage |-> "none", prop |-> 0, answer |-> 0, was_resolved |-> FALSE, scores |-> <<>>]

\* The request ends without a commit: the store is as it was.
NoCommit(r) ==
    /\ response' = r
    /\ UNCHANGED store

\* A decorator that lets every request through.
admin_required_open == TRUE

\* admin_required: the wrapped handler runs only with the session flag set.
admin_required == is_admin

RedirectToLogin ==
    /\ NoCommit(Redirect("admin_login", ""))
    /\ UNCHANGED is_admin

\* Values a form field may carry.
Passwords == {ADMIN_PASSWORD, "letmein"}
Methods == {"GET", "POST"}
NameInputs == {<<>>, <<"a">>, <<Space, "A">>, <<UpperE>>, <<LowerE>>}
IdInputs == {<<"z">>} \cup {str(n) : n \in 1..MaxAnswerId}
\* The answer rows of the add and edit forms: the lists answer_text[] and
\* answer_points[].  Two answers worth 1 and -1; one answer; none; a blank
\* text before a padded one; lists of unequal length; points that are no
\* number.
FormInputs ==
    {[texts |-> <<>>, points |-> <<>>],
     [texts |-> << <<"x">> >>, points |-> << <<>> >>],
     [texts |-> << <<"x">>, <<"y">> >>, points |-> << <<>>, <<"-", "1">> >>],
     [texts |-> << <<Space>>, <<Space, "x", Space>> >>, points |-> << <<"z">>, <<"1">> >>],
     [texts |-> << <<"x">>, <<"y">> >>, points |-> << <<"1">> >>],
     [texts |-> << <<"x">> >>, points |-> << <<"z">> >>]}
QuestionInputs == {<<"q">>, <<Space>>}
SettingsActions ==
    {"start_game", "stop_game", "lock_submissions", "unlock_submissions", "other"}
Directions == {"up", "down", "sideways"}

-----------------------------------------------------------------------------
(* Public handlers.                                                        *)

\* A prop sheet that never closes.
submissions_closed_never == FALSE

\* prop_sheet, line 111
submissions_closed == settings.submissions_locked

\* prop_sheet: form[p] is the field prop_<p>, "" when absent.
prop_sheet(method, name, form) ==
    /\ endpoint' = "prop_sheet"
    /\ snapshot' = NoSnapshot
    /\ UNCHANGED is_admin
    /\ IF submissions_closed
       THEN NoCommit(Redirect("index", "Submissions are now closed!"))
       ELSE IF method # "POST" THEN NoCommit(Render("prop_sheet", ""))
       ELSE IF strip(name) = <<>>
       THEN NoCommit(Render("prop_sheet", "Please enter your name!"))
       ELSE IF \E e \in DOMAIN entries :
                   func_lower(entries[e].name) = lower(strip(name))
       THEN NoCommit(Render("prop_sheet", "An entry already exists!"))
       ELSE IF \E e \in DOMAIN entries : entries[e].name = strip(name)
       THEN \* the UNIQUE constraint on Entry.name fails the flush
            NoCommit(Abort("500", "IntegrityError"))
       ELSE IF \E p \in DOMAIN props : form[p] # <<>> /\ ~IntParses(form[p])
       THEN NoCommit(Abort("500", "ValueError"))
       ELSE LET id == NewId(DOMAIN entries)
                picked == {p \in DOMAIN props : form[p] # <<>>}
            IN  /\ id <= MaxEntryId
                /\ entries' = entries @@ (id :> [name |-> strip(name)])
                /\ picks' = picks @@ [k \in {<<id, p>> : p \in picked} |->
                                         int(form[k[2]])]
                /\ response' = Redirect("submit_success", "Your picks have been submitted!")
                /\ UNCHANGED <<settings, props, answers>>

\* admin_login
admin_login(method, password) ==
    /\ endpoint' = "admin_login"
    /\ snapshot' = NoSnapshot
    /\ UNCHANGED store
    /\ IF method = "POST" /\ password = ADMIN_PASSWORD
       THEN /\ is_admin' = TRUE
            /\ response' = Redirect("admin_dashboard", "Welcome, Seth!")
       ELSE /\ UNCHANGED is_admin
            /\ response' = Render("admin_login",
                                  IF method = "POST" THEN "Wrong password!" ELSE "")

\* admin_logout
admin_logout ==
    /\ endpoint' = "admin_logout"
    /\ snapshot' = NoSnapshot
    /\ UNCHANGED store
    /\ is_admin' = FALSE
    /\ response' = Redirect("index", "Logged out!")

-----------------------------------------------------------------------------
(* Admin handlers.                                                         *)

\* admin_settings
admin_settings(action) ==
    /\ endpoint' = "admin_settings"
    /\ snapshot' = NoSnapshot
    /\ IF ~admin_required THEN RedirectToLogin
       ELSE /\ settings' =
                 CASE action = "start_game" ->
                        [game_started |-> TRUE, submissions_locked |-> TRUE]
                   [] action = "stop_game" ->
                        [settings EXCEPT !.game_started = FALSE]
                   [] action = "lock_submissions" ->
                        [settings EXCEPT !.submissions_locked = TRUE]
                   [] action = "unlock_submissions" ->
                        [settings EXCEPT !.submissions_locked = FALSE]
                   [] OTHER -> settings
            /\ response' = Redirect("admin_dashboard",
                                    IF action \in SettingsActions \ {"other"}
                                    THEN action ELSE "")
            /\ UNCHANGED <<props, answers, entries, picks, is_admin>>

\* zip(answer_texts, answer_points): the positions both lists have.
zip(texts, points) == 1..(IF Len(texts) < Len(points) THEN Len(texts) ELSE Len(points))

\* The positions of the form whose answer is kept: `if text.strip()`.
Kept(texts, points) == {i \in zip(texts, points) : strip(texts[i]) # <<>>}

\* `int(points) if points else 1` raises ValueError at one of the kept answers.
PointsRaise(texts, points) ==
    \E i \in Kept(texts, points) : points[i] # <<>> /\ ~IntParses(points[i])

\* The Answer table after the loop that adds the form's answers to prop p,
\* from position i on.
RECURSIVE AddAnswers(_, _, _, _, _)
AddAnswers(ans, p, texts, points, i) ==
    IF i \notin zip(texts, points) THEN ans
    ELSE IF i \notin Kept(texts, points) THEN AddAnswers(ans, p, texts, points, i + 1)
    ELSE AddAnswers(
            ans @@ (NewId(DOMAIN ans) :>
                      [prop_id |-> p,
                       text |-> strip(texts[i]),
                       points |-> IF points[i] # <<>> THEN int(points[i]) ELSE 1,
                       order |-> i - 1]),
            p, texts, points, i + 1)

\* db.func.max(Prop.order) ... or 0
max_order == IF DOMAIN props = {} THEN 0
             ELSE LET m == Max({props[p].order : p \in DOMAIN props})
                  IN  IF m = 0 THEN 0 ELSE m

\* admin_add_prop
admin_add_prop(method, question, texts, points) ==
    /\ endpoint' = "admin_add_prop"
    /\ snapshot' = NoSnapshot
    /\ IF ~admin_required THEN RedirectToLogin
       ELSE /\ UNCHANGED is_admin
            /\ IF method # "POST" THEN NoCommit(Render("admin_add_prop", ""))
               ELSE IF strip(question) = <<>>
               THEN NoCommit(Redirect("admin_add_prop", "Question is required!"))
               ELSE IF PointsRaise(texts, points)
               THEN NoCommit(Abort("500", "ValueError"))
               ELSE LET id == NewId(DOMAIN props)
                        added == AddAnswers(answers, id, texts, points, 1)
                    IN  /\ id <= MaxPropId
                        /\ max_order + 1 <= MaxOrder
                        /\ \A a \in DOMAIN added : a <= MaxAnswerId
                        /\ props' = props @@ (id :>
                              [order |-> max_order + 1,
                               resolved |-> FALSE,
                               correct_answer_id |-> None])
                        /\ answers' = added
                        /\ response' = Redirect("admin_props", "Prop added!")
                        /\ UNCHANGED <<settings, entries, picks>>

Restrict(f, S) == [x \in S |-> f[x]]

\* Answer.query.filter_by(prop_id=p).delete()
DeleteAnswers(p) == Restrict(answers, {a \in DOMAIN answers : answers[a].prop_id # p})

\* admin_edit_prop
admin_edit_prop(prop_id, method, texts, points) ==
    /\ endpoint' = "admin_edit_prop"
    /\ snapshot' = NoSnapshot
    /\ IF ~admin_required THEN RedirectToLogin
       ELSE /\ UNCHANGED is_admin
            /\ IF prop_id \notin DOMAIN props THEN NoCommit(Abort("404", ""))
               ELSE IF method # "POST" THEN NoCommit(Render("admin_edit_prop", ""))
               ELSE IF PointsRaise(texts, points)
               THEN NoCommit(Abort("500", "ValueError"))
               ELSE LET added == AddAnswers(DeleteAnswers(prop_id), prop_id,
                                            texts, points, 1)
                    IN  /\ \A a \in DOMAIN added : a <= MaxAnswerId
                        /\ answers' = added
                        /\ response' = Redirect("admin_props", "Prop updated!")
                        /\ UNCHANGED <<settings, props, entries, picks>>

\* admin_delete_prop
admin_delete_prop(prop_id) ==
    /\ endpoint' = "admin_delete_prop"
    /\ snapshot' = NoSnapshot
    /\ IF ~admin_required THEN RedirectToLogin
       ELSE /\ UNCHANGED is_admin
            /\ IF prop_id \notin DOMAIN props THEN NoCommit(Abort("404", ""))
               ELSE /\ picks' = Restrict(picks, {k \in DOMAIN picks : k[2] # prop_id})
                    /\ answers' = DeleteAnswers(prop_id)
                    /\ props' = Restrict(props, DOMAIN props \ {prop_id})
                    /\ response' = Redirect("admin_props", "Prop deleted!")
                    /\ UNCHANGED <<settings, entries>>

\* The index of prop_id in the rendered list (current_index, counted from 1).
IndexOf(s, prop_id) == CHOOSE i \in 1..Len(s) : s[i] = prop_id

\* The Prop table after the swap of admin_move_prop: prop takes the order of
\* other_prop and other_prop that of prop; if the two are then equal, prop
\* moves by nudge (-1 going up, +1 going down).
Swapped(ps, prop, other_prop, nudge) ==
    LET mine == ps[other_prop].order
        theirs == ps[prop].order
    IN  [ps EXCEPT ![prop].order = IF mine = theirs THEN mine + nudge ELSE mine,
                   ![other_prop].order = theirs]

\* The Prop table admin_move_prop commits.
Moved(ps, prop_id, direction) ==
    LET s == RenderOrder(ps)
        current_index == IndexOf(s, prop_id)
    IN  IF direction = "up" /\ current_index > 1
        THEN Swapped(ps, prop_id, s[current_index - 1], -1)
        ELSE IF direction = "down" /\ current_index < Len(s)
        THEN Swapped(ps, prop_id, s[current_index + 1], 1)
        ELSE ps

\* admin_move_prop
admin_move_prop(prop_id, direction) ==
    /\ endpoint' = "admin_move_prop"
    /\ snapshot' = NoSnapshot
    /\ IF ~admin_required THEN RedirectToLogin
       ELSE /\ UNCHANGED is_admin
            /\ IF prop_id \notin DOMAIN props THEN NoCommit(Abort("404", ""))
               ELSE /\ props' = Moved(props, prop_id, direction)
                    /\ response' = Redirect("admin_props", "")
                    /\ UNCHANGED <<settings, answers, entries, picks>>

\* The scores of all entries, as the public pages compute them.
Scores == [e \in DOMAIN entries |-> calculate_score(e)]

\* The branches of admin_resolve_prop.
Resolved(prop, answer_id) ==
    [prop EXCEPT !.correct_answer_id = Some(int(answer_id)), !.resolved = TRUE]

\* An unresolving branch that writes nothing.
UnresolvedKeeps(prop) == prop

Unresolved(prop) ==
    [prop EXCEPT !.correct_answer_id = None, !.resolved = FALSE]

\* admin_resolve_prop; answer_id is the form field, "" when absent.
admin_resolve_prop(prop_id, answer_id) ==
    /\ endpoint' = "admin_resolve_prop"
    /\ IF ~admin_required THEN RedirectToLogin /\ snapshot' = NoSnapshot
       ELSE /\ UNCHANGED is_admin
            /\ IF prop_id \notin DOMAIN props
               THEN NoCommit(Abort("404", "")) /\ snapshot' = NoSnapshot
               ELSE IF answer_id # <<>> /\ ~IntParses(answer_id)
               THEN NoCommit(Abort("500", "ValueError")) /\ snapshot' = NoSnapshot
               ELSE /\ props' = [props EXCEPT ![prop_id] =
                                    IF answer_id # <<>> THEN Resolved(@, answer_id)
                                    ELSE Unresolved(@)]
                    /\ response' = Redirect("admin_answers",
                                            IF answer_id # <<>> THEN "Marked correct answer"
                                            ELSE "Unresolved")
                    /\ snapshot' =
                         IF answer_id # <<>>
                         THEN [stage |-> "resolved", prop |-> prop_id,
                               answer |-> int(answer_id),
                               was_resolved |-> props[prop_id].resolved,
                               scores |-> Scores]
                         ELSE IF snapshot.stage = "resolved" /\ snapshot.prop = prop_id
                         THEN [snapshot EXCEPT !.stage = "unresolved"]
                         ELSE NoSnapshot
                    /\ UNCHANGED <<settings, answers, entries, picks>>

\* admin_delete_entry
admin_delete_entry(entry_id) ==
    /\ endpoint' = "admin_delete_entry"
    /\ snapshot' = NoSnapshot
    /\ IF ~admin_required THEN RedirectToLogin
       ELSE /\ UNCHANGED is_admin
            /\ IF entry_id \notin DOMAIN entries THEN NoCommit(Abort("404", ""))
               ELSE /\ picks' = Restrict(picks, {k \in DOMAIN picks : k[1] # entry_id})
                    /\ entries' = Restrict(entries, DOMAIN entries \ {entry_id})
                    /\ response' = Redirect("admin_entries", "Deleted entry")
                    /\ UNCHANGED <<settings, props, answers>>

-----------------------------------------------------------------------------
(* The application.                                                        *)

\* db.create_all() and get_settings() on an empty database, a fresh session.
Init ==
    /\ settings = [game_started |-> FALSE, submissions_locked |-> FALSE]
    /\ props = <<>>
    /\ answers = <<>>
    /\ entries = <<>>
    /\ picks = <<>>
    /\ is_admin = FALSE
    /\ endpoint = "index"
    /\ response = Render("index", "")
    /\ snapshot = NoSnapshot

\* The answers the pages offer for prop p (prop.answers), as field values.
Offered(p) == {str(a) : a \in {a \in DOMAIN answers : answers[a].prop_id = p}}

\* The values the fields prop_<p> and answer_id may carry for prop p: blank,
\* or one of ids; a client that fills the fields from the pages it was
\* served (browser) sends only ids that are offered.
Fields(ids, browser, p) ==
    {<<>>} \cup (IF browser THEN ids \cap Offered(p) ELSE ids)

\* Any request, with the form values drawn from the given sets.
Request(names, ids, browser, forms) ==
    \/ \E m \in Methods, n \in names,
          f \in {g \in [DOMAIN props -> IdInputs \cup {<<>>}] :
                   \A p \in DOMAIN props : g[p] \in Fields(ids, browser, p)} :
          prop_sheet(m, n, f)
    \/ \E m \in Methods, pw \in Passwords : admin_login(m, pw)
    \/ admin_logout
    \/ \E a \in SettingsActions : admin_settings(a)
    \/ \E m \in Methods, q \in QuestionInputs, f \in forms :
          admin_add_prop(m, q, f.texts, f.points)
    \/ \E p \in 1..MaxPropId, m \in Methods, f \in forms :
          admin_edit_prop(p, m, f.texts, f.points)
    \/ \E p \in 1..MaxPropId : admin_delete_prop(p)
    \/ \E p \in 1..MaxPropId, d \in Directions : admin_move_prop(p, d)
    \/ \E p \in 1..MaxPropId : \E a \in Fields(ids, browser, p) :
          admin_resolve_prop(p, a)
    \/ \E e \in 1..MaxEntryId : admin_delete_entry(e)

\* Any client: a field may carry any of the id values.
Next == Request(NameInputs, IdInputs, FALSE, FormInputs)

Spec == Init /\ [][Next]_vars

\* Clients that send only what the pages offer.
NextBrowser == Request(NameInputs, IdInputs, TRUE, FormInputs)

SpecBrowser == Init /\ [][NextBrowser]_vars

\* The application with fewer form values: a blank name and one entrant, the
\* answer ids 1 and 2, and forms of one or two answers.
NextScoring ==
    Request({<<>>, <<"a">>}, {<<"1">>, <<"2">>}, FALSE,
            {f \in FormInputs : f.points \in {<< <<>> >>, << <<>>, <<"-", "1">> >>}})

SpecScoring == Init /\ [][NextScoring]_vars

\* The application with the fewest form values: a blank name and one
\* entrant, the answer id 1, and forms of no or one answer.
NextGate ==
    Request({<<>>, <<"a">>}, {<<"1">>}, FALSE,
            {f \in FormInputs : f.points \in {<<>>, << <<>> >>}})

SpecGate == Init /\ [][NextGate]_vars

\* The Ordering Maintainer on its own: the application started on a stored
\* Prop table of up to MaxMoveProps rows whose order values lie in
\* 0..MaxOrder and may repeat (the column's default is 0, and
\* admin_move_prop has a branch for equal values), then logins, logouts and
\* moves.
MoveTables ==
    UNION {[S -> {[order |-> o, resolved |-> FALSE, correct_answer_id |-> None] :
                    o \in 0..MaxOrder}] : S \in SUBSET (1..MaxMoveProps)}

InitMove ==
    /\ settings = [game_started |-> FALSE, submissions_locked |-> FALSE]
    /\ props \in MoveTables
    /\ answers = <<>>
    /\ entries = <<>>
    /\ picks = <<>>
    /\ is_admin = FALSE
    /\ endpoint = "index"
    /\ response = Render("index", "")
    /\ snapshot = NoSnapshot

NextMove ==
    \/ \E pw \in Passwords : admin_login("POST", pw)
    \/ admin_logout
    \/ \E p \in 1..MaxMoveProps, d \in Directions : admin_move_prop(p, d)

SpecMove == InitMove /\ [][NextMove]_vars

-----------------------------------------------------------------------------
(* The claims.                                                             *)

RECURSIVE SumOver(_, _)
SumOver(f, S) ==
    IF S = {} THEN 0
    ELSE LET x == CHOOSE y \in S : TRUE IN f[x] + SumOver(f, S \ {x})

\* The picks of entry e that are correct: the pick's prop is resolved and
\* its correct_answer_id is the pick's answer_id.
CorrectPicks(e) ==
    {p \in PicksOf(e) : /\ p \in DOMAIN props
                        /\ props[p].resolved
                        /\ props[p].correct_answer_id = Some(picks[<<e, p>>])}

\* The points a correct pick is worth; a pick whose answer is absent is left
\* out of the sum.
Worth(e) ==
    [p \in CorrectPicks(e) |->
        IF picks[<<e, p>>] \in DOMAIN answers THEN answers[picks[<<e, p>>]].points
        ELSE 0]

\* C1: for every entry, calculate_score returns the sum of the points of
\* exactly the entry's picks whose prop is resolved and whose answer is the
\* prop's correct answer.
C1_ScoreIsSumOfCorrectPicks ==
    \A e \in DOMAIN entries :
        calculate_score(e) = Returns(SumOver(Worth(e), CorrectPicks(e)))

\* C2: every answer has points >= 0 and every entry's score is >= 0.
C2_PointsAndScoresNonNegative ==
    /\ \A a \in DOMAIN answers : answers[a].points >= 0
    /\ \A e \in DOMAIN entries : calculate_score(e).value >= 0

\* What C3 asks of a move of prop p in direction d: at the end of the list
\* nothing changes; otherwise the rendered list afterwards is the rendered
\* list before with p and its one neighbour exchanged, over the same props.
MoveExchangesNeighbour(p, d) ==
    LET s == RenderOrder(props)
        i == IndexOf(s, p)
        j == IF d = "up" THEN i - 1 ELSE i + 1
    IN  IF j \notin 1..Len(s) THEN props' = props
        ELSE /\ DOMAIN props' = DOMAIN props
             /\ RenderOrder(props') = [s EXCEPT ![i] = s[j], ![j] = s[i]]

\* C3: moving the first prop up or the last prop down changes nothing; any
\* other move exchanges the prop with its one neighbour in the rendered
\* order and leaves every other prop where it was, also when several props
\* share an order value.
C3_MoveExchangesNeighbour ==
    [][\A p \in DOMAIN props, d \in {"up", "down"} :
          (is_admin /\ admin_move_prop(p, d)) => MoveExchangesNeighbour(p, d)]_vars

\* C4: a GET or POST to /prop-sheet while submissions are locked is rejected
\* whatever the form holds: the response is the redirect to the index page
\* with the "closed" message and the store is unchanged.
C4_LockedSubmissionRejected ==
    [][(settings.submissions_locked /\ endpoint' = "prop_sheet")
          => /\ UNCHANGED store
             /\ response' = Redirect("index", "Submissions are now closed!")]_vars

C4_Witness ==
    /\ settings.submissions_locked
    /\ endpoint = "prop_sheet"
    /\ response = Redirect("index", "Submissions are now closed!")

\* C5: no two entries have names that are equal ignoring letter case.
C5_NamesUniqueIgnoringCase ==
    \A e1, e2 \in DOMAIN entries :
        e1 # e2 => lower(entries[e1].name) # lower(entries[e2].name)

\* C6 as stated: resolving a prop and then unresolving it leaves every
\* entry's score as it was before the first call, whatever the prop's state
\* was before the first call.
C6_RoundTripRestoresScores ==
    snapshot.stage = "unresolved" => Scores = snapshot.scores

\* C6 as amended: resolving a prop that was unresolved and then unresolving
\* it leaves the outcome of calculate_score for every entry (its value, or
\* the error it raises) as it was before the first call.
C6_RoundTripFromUnresolved ==
    (snapshot.stage = "unresolved" /\ ~snapshot.was_resolved)
        => Scores = snapshot.scores

\* A round trip done on an unresolved prop for which some entry's pick was
\* the answer marked correct, worth points other than 0.
C6_Witness ==
    /\ snapshot.stage = "unresolved"
    /\ ~snapshot.was_resolved
    /\ \E e \in DOMAIN entries :
          /\ <<e, snapshot.prop>> \in DOMAIN picks
          /\ picks[<<e, snapshot.prop>>] = snapshot.answer
          /\ snapshot.answer \in DOMAIN answers
          /\ answers[snapshot.answer].points # 0

\* The admin-only handlers: those under @admin_required that write.
AdminEndpoints ==
    {"admin_settings", "admin_add_prop", "admin_edit_prop", "admin_delete_prop",
     "admin_move_prop", "admin_resolve_prop", "admin_delete_entry"}

\* C7: an admin-only request made without the session flag redirects to the
\* login page and leaves the store and the flag as they were; the flag is
\* set only by a login POST with the configured password, and a logout
\* clears it.
C7_AdminGate ==
    [][/\ (~is_admin /\ endpoint' \in AdminEndpoints)
            => /\ UNCHANGED <<store, is_admin>>
               /\ response' = Redirect("admin_login", "")
       /\ (~is_admin /\ is_admin') => admin_login("POST", ADMIN_PASSWORD)
       /\ endpoint' = "admin_logout" => ~is_admin']_vars

\* An admin request refused after the admin had built a prop and logged out.
C7_Witness ==
    /\ ~is_admin
    /\ endpoint \in AdminEndpoints
    /\ response = Redirect("admin_login", "")
    /\ DOMAIN props # {}

\* C8: calculate_score raises for no entry, and every pick's prop exists.
C8_ScoreNeverRaises ==
    /\ \A k \in DOMAIN picks : k[2] \in DOMAIN props
    /\ \A e \in DOMAIN entries : calculate_score(e).raises = ""

\* C9: every resolved prop's correct_answer_id is the id of an existing
\* answer of that prop.
C9_ResolvedHasOwnAnswer ==
    \A p \in DOMAIN props :
        props[p].resolved =>
            /\ props[p].correct_answer_id # None
            /\ props[p].correct_answer_id[1] \in DOMAIN answers
            /\ answers[props[p].correct_answer_id[1]].prop_id = p

\* C10: every pick's answer_id is the id of an existing answer of the pick's
\* prop.
C10_PickAnswerBelongsToProp ==
    \A k \in DOMAIN picks :
        /\ picks[k] \in DOMAIN answers
        /\ answers[picks[k]].prop_id = k[2]

====
